---- MODULE Spec2Model ----
(***************************************************************************)
(* tabfix (src/src/tabfix/core.py): the run of main() over a list of       *)
(* files, TabFix.process_file with its transforms, and the interactive     *)
(* prompt.  Bytes are numbers 0..255, text is a sequence of code points.   *)
(***************************************************************************)
EXTENDS Integers, Sequences, FiniteSets, TLC

\* ------------------------------------------------------------------ bounds
MaxFiles == 2
MaxReprompts == 1

\* the longest text a function is applied to on its own
MaxLen == 4

\* the most lines an ignore file holds
MaxLines == 2

\* ------------------------------------------------------------ characters
TAB == 9
LF == 10
CR == 13
SP == 32
COMMA == 44
DIGIT1 == 49
LBRACKET == 91
RBRACKET == 93
LETTER == 120
BadByte == 255
SizeLimit == 10485760

BOM == <<239, 187, 191>>

\* --------------------------------------------------------------- sequences
StartsWith(s, p) == Len(s) >= Len(p) /\ SubSeq(s, 1, Len(p)) = p

EndsWith(s, p) == Len(s) >= Len(p) /\ SubSeq(s, Len(s) - Len(p) + 1, Len(s)) = p

Drop(s, n) == SubSeq(s, n + 1, Len(s))

Replicate(c, n) == [i \in 1..n |-> c]

RECURSIVE Concat(_)
Concat(ss) == IF ss = <<>> THEN <<>> ELSE Head(ss) \o Concat(Tail(ss))

\* str.split(sep) for a one-character separator: never empty, "" gives [""]
RECURSIVE SplitFrom(_, _, _, _)
SplitFrom(s, sep, i, cur) ==
    IF i > Len(s) THEN <<cur>>
    ELSE IF s[i] = sep THEN <<cur>> \o SplitFrom(s, sep, i + 1, <<>>)
    ELSE SplitFrom(s, sep, i + 1, Append(cur, s[i]))

Split(s, sep) == SplitFrom(s, sep, 1, <<>>)

\* sep.join(lines)
RECURSIVE Join(_, _)
Join(lines, sep) ==
    IF lines = <<>> THEN <<>>
    ELSE IF Len(lines) = 1 THEN lines[1]
    ELSE lines[1] \o sep \o Join(Tail(lines), sep)

\* ------------------------------------------------------------------ UTF-8
IsCont(b) == b \in 128..191

\* bytes.decode("utf-8"), strict: ok = FALSE stands for UnicodeDecodeError
RECURSIVE DecodeFrom(_, _, _)
DecodeFrom(b, i, acc) ==
    IF i > Len(b) THEN [ok |-> TRUE, text |-> acc]
    ELSE IF b[i] < 128 THEN DecodeFrom(b, i + 1, Append(acc, b[i]))
    ELSE IF /\ b[i] \in 194..223
            /\ i + 1 <= Len(b)
            /\ IsCont(b[i + 1])
         THEN DecodeFrom(b, i + 2, Append(acc, (b[i] - 192) * 64 + (b[i + 1] - 128)))
    ELSE IF /\ b[i] \in 224..239
            /\ i + 2 <= Len(b)
            /\ IsCont(b[i + 1])
            /\ IsCont(b[i + 2])
            /\ (b[i] = 224 => b[i + 1] >= 160)
            /\ (b[i] = 237 => b[i + 1] <= 159)
         THEN DecodeFrom(b, i + 3,
                  Append(acc, (b[i] - 224) * 4096 + (b[i + 1] - 128) * 64 + (b[i + 2] - 128)))
    ELSE IF /\ b[i] \in 240..244
            /\ i + 3 <= Len(b)
            /\ IsCont(b[i + 1])
            /\ IsCont(b[i + 2])
            /\ IsCont(b[i + 3])
            /\ (b[i] = 240 => b[i + 1] >= 144)
            /\ (b[i] = 244 => b[i + 1] <= 143)
         THEN DecodeFrom(b, i + 4,
                  Append(acc, (b[i] - 240) * 262144 + (b[i + 1] - 128) * 4096
                              + (b[i + 2] - 128) * 64 + (b[i + 3] - 128)))
    ELSE [ok |-> FALSE, text |-> <<>>]

\* raw_content.decode("utf-8-sig"): one leading BOM is dropped, then strict UTF-8
DecodeUtf8Sig(raw) ==
    IF StartsWith(raw, BOM) THEN DecodeFrom(Drop(raw, 3), 1, <<>>)
    ELSE DecodeFrom(raw, 1, <<>>)

EncodeChar(c) ==
    IF c < 128 THEN <<c>>
    ELSE IF c < 2048 THEN <<192 + (c \div 64), 128 + (c % 64)>>
    ELSE IF c < 65536 THEN <<224 + (c \div 4096), 128 + ((c \div 64) % 64), 128 + (c % 64)>>
    ELSE <<240 + (c \div 262144), 128 + ((c \div 4096) % 64),
           128 + ((c \div 64) % 64), 128 + (c % 64)>>

\* content.encode("utf-8")
EncodeUtf8(text) == Concat([i \in 1..Len(text) |-> EncodeChar(text[i])])

\* TabFix.add_bom
add_bom(content) == BOM \o content

\* ------------------------------------------------------------------- JSON
\* json.loads / json.dumps on the JSON texts this model's alphabet can spell:
\* integers written with the digit 1, arrays, and JSON whitespace.  Every
\* other character of the alphabet (a letter, U+FEFF, ...) is a syntax error.
JsonWs == {SP, TAB, LF, CR}

RECURSIVE SkipWs(_, _)
SkipWs(s, i) == IF i <= Len(s) /\ s[i] \in JsonWs THEN SkipWs(s, i + 1) ELSE i

RECURSIVE DigitsEnd(_, _)
DigitsEnd(s, i) == IF i <= Len(s) /\ s[i] = DIGIT1 THEN DigitsEnd(s, i + 1) ELSE i

JsonFail == [ok |-> FALSE, val |-> [t |-> "int", n |-> 0, items |-> <<>>], pos |-> 0]

RECURSIVE ParseValue(_, _)
RECURSIVE ParseItems(_, _, _)
ParseValue(s, i) ==
    IF i > Len(s) THEN JsonFail
    ELSE IF s[i] = DIGIT1
         THEN [ok |-> TRUE,
               val |-> [t |-> "int", n |-> DigitsEnd(s, i) - i, items |-> <<>>],
               pos |-> DigitsEnd(s, i)]
    ELSE IF s[i] = LBRACKET
         THEN LET j == SkipWs(s, i + 1)
              IN  IF j <= Len(s) /\ s[j] = RBRACKET
                  THEN [ok |-> TRUE, val |-> [t |-> "arr", n |-> 0, items |-> <<>>],
                        pos |-> j + 1]
                  ELSE ParseItems(s, j, <<>>)
    ELSE JsonFail

ParseItems(s, i, acc) ==
    LET v == ParseValue(s, i)
        j == SkipWs(s, v.pos)
    IN  IF ~v.ok \/ j > Len(s) THEN JsonFail
        ELSE IF s[j] = RBRACKET
             THEN [ok |-> TRUE,
                   val |-> [t |-> "arr", n |-> 0, items |-> Append(acc, v.val)],
                   pos |-> j + 1]
        ELSE IF s[j] = COMMA
             THEN ParseItems(s, SkipWs(s, j + 1), Append(acc, v.val))
        ELSE JsonFail

\* json.loads(content): ok = FALSE stands for json.JSONDecodeError
JsonLoads(s) ==
    LET v == ParseValue(s, SkipWs(s, 1))
    IN  IF v.ok /\ SkipWs(s, v.pos) = Len(s) + 1 THEN v ELSE JsonFail

NewlineIndent(spaces, level) == <<LF>> \o Replicate(SP, spaces * level)

\* json.dumps(parsed, indent=spaces, ensure_ascii=False)
RECURSIVE JsonDumpsAt(_, _, _)
JsonDumpsAt(v, spaces, level) ==
    IF v.t = "int" THEN Replicate(DIGIT1, v.n)
    ELSE IF v.items = <<>> THEN <<LBRACKET, RBRACKET>>
    ELSE <<LBRACKET>> \o NewlineIndent(spaces, level + 1)
         \o Join([k \in 1..Len(v.items) |-> JsonDumpsAt(v.items[k], spaces, level + 1)],
                 <<COMMA>> \o NewlineIndent(spaces, level + 1))
         \o NewlineIndent(spaces, level) \o <<RBRACKET>>

JsonDumps(v, spaces) == JsonDumpsAt(v, spaces, 0)

\* TabFix.format_json
format_json(content, spaces) ==
    LET parsed == JsonLoads(content)
        formatted == JsonDumps(parsed.val, spaces)
    IN  IF parsed.ok /\ formatted # content
        THEN [content |-> formatted, changed |-> TRUE]
        ELSE [content |-> content, changed |-> FALSE]

\* ------------------------------------------------------------- transforms
\* a change description: the line it names (0 when it names none) and its text
Change(line, msg) == [line |-> line, msg |-> msg]

\* str.isspace() of one code point: what str.rstrip() with no argument strips
IsSpace(c) ==
    \/ c \in 9..13
    \/ c \in 28..32
    \/ c \in {133, 160, 5760, 8232, 8233, 8239, 8287, 12288}
    \/ c \in 8192..8202

\* line 329 with the carriage return left in place
RECURSIVE RStrip_KeepsCR(_)
RStrip_KeepsCR(line) ==
    IF line # <<>> /\ IsSpace(line[Len(line)]) /\ line[Len(line)] # CR
    THEN RStrip_KeepsCR(SubSeq(line, 1, Len(line) - 1))
    ELSE line

\* line 329 with only spaces stripped
RECURSIVE RStrip_SpacesOnly(_)
RStrip_SpacesOnly(line) ==
    IF line # <<>> /\ line[Len(line)] = SP
    THEN RStrip_SpacesOnly(SubSeq(line, 1, Len(line) - 1))
    ELSE line

\* line.rstrip()
RECURSIVE RStrip(_)
RStrip(line) ==
    IF line # <<>> /\ IsSpace(line[Len(line)])
    THEN RStrip(SubSeq(line, 1, Len(line) - 1))
    ELSE line

\* line 311 with only the leading tabs replaced
ReplaceTabs_LeadingOnly(line, spaces) ==
    Concat([i \in 1..Len(line) |->
               IF line[i] = TAB /\ \A j \in 1..i : line[j] = TAB
               THEN Replicate(SP, spaces) ELSE <<line[i]>>])

\* line.replace("\t", " " * spaces_per_tab)
ReplaceTabs(line, spaces) ==
    Concat([i \in 1..Len(line) |->
               IF line[i] = TAB THEN Replicate(SP, spaces) ELSE <<line[i]>>])

HasTab(line) == \E i \in 1..Len(line) : line[i] = TAB

\* one change per line (1-based, in order) whose fixed text differs from the original
RECURSIVE ChangesFor(_, _, _, _)
ChangesFor(old, new, i, msg) ==
    IF i > Len(old) THEN <<>>
    ELSE (IF new[i] # old[i] THEN <<Change(i, msg)>> ELSE <<>>)
         \o ChangesFor(old, new, i + 1, msg)

\* TabFix.fix_mixed_indentation
fix_mixed_indentation(content, spaces) ==
    LET lines == Split(content, LF)
        fixed_lines == [i \in 1..Len(lines) |->
                           IF HasTab(lines[i]) THEN ReplaceTabs(lines[i], spaces)
                           ELSE lines[i]]
    IN  [content |-> Join(fixed_lines, <<LF>>),
         changes |-> ChangesFor(lines, fixed_lines, 1, "Tabs -> spaces")]

\* TabFix.fix_trailing_spaces
fix_trailing_spaces(content) ==
    LET lines == Split(content, LF)
        fixed_lines == [i \in 1..Len(lines) |->
                           IF Len(RStrip(lines[i])) # Len(lines[i]) THEN RStrip(lines[i])
                           ELSE lines[i]]
    IN  [content |-> Join(fixed_lines, <<LF>>),
         changes |-> ChangesFor(lines, fixed_lines, 1, "Removed trailing spaces")]

\* ensure_final_newline without the test for empty content
ensure_final_newline_Always(content) ==
    IF ~EndsWith(content, <<LF>>)
    THEN [content |-> Append(content, LF), changes |-> <<Change(0, "Added final newline")>>]
    ELSE [content |-> content, changes |-> <<>>]

\* TabFix.ensure_final_newline
ensure_final_newline(content) ==
    IF content # <<>> /\ ~EndsWith(content, <<LF>>)
    THEN [content |-> Append(content, LF), changes |-> <<Change(0, "Added final newline")>>]
    ELSE [content |-> content, changes |-> <<>>]

\* ------------------------------------------------------------------ paths
\* A path is a string: a sequence of one-character strings, relative to the
\* working directory, with "/" between its components.
SLASH == "/"
DOT == "."

RECURSIVE LastIndexOf(_, _)
LastIndexOf(s, c) ==
    IF s = <<>> THEN 0
    ELSE IF s[Len(s)] = c THEN Len(s)
    ELSE LastIndexOf(SubSeq(s, 1, Len(s) - 1), c)

Contains(s, c) == \E i \in 1..Len(s) : s[i] = c

\* Path.name
Name(path) == Drop(path, LastIndexOf(path, SLASH))

\* Path.parent ("" stands for the working directory)
Parent(path) ==
    IF LastIndexOf(path, SLASH) = 0 THEN <<>>
    ELSE SubSeq(path, 1, LastIndexOf(path, SLASH) - 1)

\* parent / name
Child(dir, name) == IF dir = <<>> THEN name ELSE dir \o <<SLASH>> \o name

\* Path.suffix: from the last dot of the name, unless that dot is first or last
Suffix(path) ==
    LET name == Name(path)
        k == LastIndexOf(name, DOT)
    IN  IF 1 < k /\ k < Len(name) THEN Drop(name, k - 1) ELSE <<>>

\* Path.with_suffix(suffix)
WithSuffix(path, suffix) ==
    SubSeq(path, 1, Len(path) - Len(Suffix(path))) \o suffix

UpperCase == <<"A", "B", "C", "D", "E", "F", "G", "H", "I", "J", "K", "L", "M",
               "N", "O", "P", "Q", "R", "S", "T", "U", "V", "W", "X", "Y", "Z">>

LowerCase == <<"a", "b", "c", "d", "e", "f", "g", "h", "i", "j", "k", "l", "m",
               "n", "o", "p", "q", "r", "s", "t", "u", "v", "w", "x", "y", "z">>

\* str.lower()
Lower(s) ==
    [i \in 1..Len(s) |->
        IF \E k \in 1..Len(UpperCase) : UpperCase[k] = s[i]
        THEN LowerCase[CHOOSE k \in 1..Len(UpperCase) : UpperCase[k] = s[i]]
        ELSE s[i]]

DotJson == <<".", "j", "s", "o", "n">>

DotBak == <<".", "b", "a", "k">>

\* line 422 with the suffix replaced instead of extended
backup_path_Replace(filepath) == WithSuffix(filepath, DotBak)

\* filepath.with_suffix(filepath.suffix + ".bak")
backup_path(filepath) == WithSuffix(filepath, Suffix(filepath) \o DotBak)

\* ------------------------------------------------------- GitignoreMatcher
\* fnmatch.fnmatch(name, pat) on a POSIX system, for patterns made of
\* literal characters, "*" and "?" ("*" and "?" also match "/")
RECURSIVE FnMatchAt(_, _, _, _)
FnMatchAt(name, i, pat, j) ==
    IF j > Len(pat) THEN i > Len(name)
    ELSE IF pat[j] = "*"
         THEN \/ FnMatchAt(name, i, pat, j + 1)
              \/ i <= Len(name) /\ FnMatchAt(name, i + 1, pat, j)
    ELSE IF pat[j] = "?"
         THEN i <= Len(name) /\ FnMatchAt(name, i + 1, pat, j + 1)
    ELSE i <= Len(name) /\ name[i] = pat[j] /\ FnMatchAt(name, i + 1, pat, j + 1)

FnMatch(name, pat) == FnMatchAt(name, 1, pat, 1)

default_patterns ==
    << <<".", "g", "i", "t", "/">>,
       <<".", "s", "v", "n", "/">>,
       <<".", "h", "g", "/">>,
       <<".", "b", "z", "r", "/">>,
       <<".", "i", "d", "e", "a", "/">>,
       <<".", "v", "s", "c", "o", "d", "e", "/">>,
       <<"_", "_", "p", "y", "c", "a", "c", "h", "e", "_", "_", "/">>,
       <<"*", ".", "p", "y", "c">>,
       <<"*", ".", "p", "y", "o">>,
       <<"*", ".", "p", "y", "d">>,
       <<".", "P", "y", "t", "h", "o", "n">>,
       <<"*", ".", "s", "o">>,
       <<"*", ".", "d", "y", "l", "i", "b">>,
       <<"*", ".", "e", "g", "g", "-", "i", "n", "f", "o", "/">>,
       <<"*", ".", "e", "g", "g">>,
       <<"d", "i", "s", "t", "/">>,
       <<"b", "u", "i", "l", "d", "/">>,
       <<"*", ".", "l", "o", "g">>,
       <<"*", ".", "s", "q", "l", "i", "t", "e", "3">>,
       <<"*", ".", "d", "b">>,
       <<"*", ".", "e", "n", "v">>,
       <<"*", ".", "v", "e", "n", "v">>,
       <<"v", "e", "n", "v", "/">>,
       <<"n", "o", "d", "e", "_", "m", "o", "d", "u", "l", "e", "s", "/">>,
       <<"b", "o", "w", "e", "r", "_", "c", "o", "m", "p", "o", "n", "e", "n", "t", "s", "/">>,
       <<".", "c", "a", "c", "h", "e", "/">>,
       <<"c", "o", "v", "e", "r", "a", "g", "e", "/">>,
       <<".", "t", "o", "x", "/">>,
       <<".", "n", "o", "x", "/">>,
       <<".", "p", "y", "t", "e", "s", "t", "_", "c", "a", "c", "h", "e", "/">>,
       <<".", "m", "y", "p", "y", "_", "c", "a", "c", "h", "e", "/">>,
       <<".", "h", "y", "p", "o", "t", "h", "e", "s", "i", "s", "/">> >>

StripChars == {" ", "\t", "\n", "\r", "\f"}

\* line.strip()
RECURSIVE Strip(_)
Strip(line) ==
    IF line # <<>> /\ line[1] \in StripChars THEN Strip(Tail(line))
    ELSE IF line # <<>> /\ line[Len(line)] \in StripChars
         THEN Strip(SubSeq(line, 1, Len(line) - 1))
    ELSE line

\* the patterns of an ignore file read with negation: a "!" line takes the
\* pattern it names out of the set
RECURSIVE PatternsExcept(_, _)
PatternsExcept(lines, negated) ==
    IF lines = <<>> THEN <<>>
    ELSE LET line == Strip(Head(lines))
         IN  (IF line = <<>> \/ line[1] = "#" \/ line[1] = "!" \/ line \in negated
              THEN <<>>
              ELSE IF Contains(line, SLASH) THEN <<line>>
              ELSE << <<"*", "*", "/">> \o line >>)
             \o PatternsExcept(Tail(lines), negated)

PatternsOf_Negation(lines) ==
    PatternsExcept(lines,
        {Tail(Strip(lines[i])) :
            i \in {j \in 1..Len(lines) : Strip(lines[j]) # <<>> /\ Strip(lines[j])[1] = "!"}})

\* the patterns one ignore file adds (the loop body of load_gitignore)
RECURSIVE PatternsOf(_)
PatternsOf(lines) ==
    IF lines = <<>> THEN <<>>
    ELSE LET line == Strip(Head(lines))
         IN  (IF line = <<>> \/ line[1] = "#" THEN <<>>
              ELSE IF line[1] = "!" THEN <<>>
              ELSE IF Contains(line, SLASH) THEN <<line>>
              ELSE << <<"*", "*", "/">> \o line >>)
             \o PatternsOf(Tail(lines))

DotGitignore == <<".", "g", "i", "t", "i", "g", "n", "o", "r", "e">>

InfoExclude == <<".", "g", "i", "t", "/", "i", "n", "f", "o", "/",
                 "e", "x", "c", "l", "u", "d", "e">>

\* GitignoreMatcher.__init__ and load_gitignore: ignore_files maps the path of
\* each existing ignore file to its lines
GitignoreMatcher(root_dir, ignore_files) ==
    LET from(p) == IF p \in DOMAIN ignore_files THEN PatternsOf(ignore_files[p]) ELSE <<>>
    IN  [root_dir |-> root_dir,
         patterns |-> from(Child(root_dir, DotGitignore))
                      \o from(Child(root_dir, InfoExclude))
                      \o default_patterns]

\* lines 111-113 without the prefix test of a directory pattern
PatternMatches_NoPrefix(pattern, rel_str, name) ==
    IF pattern[Len(pattern)] = SLASH
    THEN FnMatch(rel_str, SubSeq(pattern, 1, Len(pattern) - 1))
    ELSE FnMatch(rel_str, pattern) \/ FnMatch(name, pattern)

\* lines 110-116 with a directory pattern matched as a leading path component
PatternMatches_ByComponent(pattern, rel_str, name) ==
    IF pattern[Len(pattern)] = SLASH
    THEN \/ StartsWith(rel_str, pattern)
         \/ FnMatch(rel_str, SubSeq(pattern, 1, Len(pattern) - 1))
    ELSE FnMatch(rel_str, pattern) \/ FnMatch(name, pattern)

\* lines 110-116: whether one pattern matches a path, given relative to the
\* root and by its name
PatternMatches(pattern, rel_str, name) ==
    IF pattern[Len(pattern)] = SLASH
    THEN \/ StartsWith(rel_str, SubSeq(pattern, 1, Len(pattern) - 1))
         \/ FnMatch(rel_str, SubSeq(pattern, 1, Len(pattern) - 1))
    ELSE FnMatch(rel_str, pattern) \/ FnMatch(name, pattern)

\* should_ignore with the patterns tried on the path as given, whatever the root
should_ignore_NoRootCheck(matcher, path) ==
    \E k \in 1..Len(matcher.patterns) :
        PatternMatches(matcher.patterns[k], path, Name(path))

\* GitignoreMatcher.should_ignore
should_ignore(matcher, path) ==
    IF path = matcher.root_dir THEN FALSE
    ELSE IF matcher.root_dir # <<>> /\ ~StartsWith(path, matcher.root_dir \o <<SLASH>>)
         THEN FALSE
    ELSE LET rel_str == IF matcher.root_dir = <<>> THEN path
                        ELSE Drop(path, Len(matcher.root_dir) + 1)
         IN  \E k \in 1..Len(matcher.patterns) :
                 PatternMatches(matcher.patterns[k], rel_str, Name(path))

\* ------------------------------------------------------------ get_git_files
\* the lines of result.stdout.strip().split("\n")
OutputLines(stdout) == Split(Strip(stdout), "\n")

\* lines 265-266: the names "git diff --name-only" printed
RECURSIVE NameOnly(_)
NameOnly(lines) ==
    IF lines = <<>> THEN <<>>
    ELSE (IF Strip(Head(lines)) # <<>> THEN <<Strip(Head(lines))>> ELSE <<>>)
         \o NameOnly(Tail(lines))

\* line[:2]
Status(line) == SubSeq(line, 1, IF Len(line) < 2 THEN Len(line) ELSE 2)

\* lines 254-261: the names "git status --porcelain" printed, the untracked
\* ones left out
RECURSIVE Porcelain(_)
Porcelain(lines) ==
    IF lines = <<>> THEN <<>>
    ELSE (IF Head(lines) # <<>> /\ Status(Head(lines)) # <<"?", "?">>
             /\ Strip(Drop(Head(lines), 3)) # <<>>
          THEN <<Strip(Drop(Head(lines), 3))>> ELSE <<>>)
         \o Porcelain(Tail(lines))

\* get_git_files run without check=True: the exit status is not looked at
get_git_files_Unchecked(mode, run) ==
    IF mode \notin {"staged", "unstaged", "all_changed"} \/ ~run.found THEN <<>>
    ELSE IF mode = "all_changed" THEN Porcelain(OutputLines(run.stdout))
    ELSE NameOnly(OutputLines(run.stdout))

\* TabFix.get_git_files: run.found is FALSE when there is no git binary
\* (FileNotFoundError), run.returncode # 0 raises CalledProcessError
get_git_files(mode, run) ==
    IF mode \notin {"staged", "unstaged", "all_changed"} THEN <<>>
    ELSE IF ~run.found \/ run.returncode # 0 THEN <<>>
    ELSE IF mode = "all_changed" THEN Porcelain(OutputLines(run.stdout))
    ELSE NameOnly(OutputLines(run.stdout))

\* ------------------------------------------------------------ process_file
\* lines 376-381: the text and the change list process_file starts from.
\* ok = FALSE stands for the UnicodeDecodeError of the decode.
Decoded(a, raw) ==
    [ok |-> DecodeUtf8Sig(raw).ok,
     had_bom |-> StartsWith(raw, BOM),
     content |-> DecodeUtf8Sig(raw).text,
     changes |-> IF a.remove_bom /\ StartsWith(raw, BOM)
                 THEN <<Change(0, "Removed BOM")>> ELSE <<>>,
     json_changed |-> FALSE, indent_changes |-> 0, trailing_changes |-> 0]

\* lines 383-388 without the test of the extension
JsonStep_AnySuffix(a, filepath, t) ==
    LET js == format_json(t.content, a.spaces)
    IN  IF a.format_json /\ js.changed
        THEN [t EXCEPT !.content = js.content,
                       !.changes = Append(@, Change(0, "Formatted JSON")),
                       !.json_changed = TRUE]
        ELSE t

\* lines 383-388: format_json on a .json file
JsonStep(a, filepath, t) ==
    LET js == format_json(t.content, a.spaces)
    IN  IF a.format_json /\ Lower(Suffix(filepath)) = DotJson /\ js.changed
        THEN [t EXCEPT !.content = js.content,
                       !.changes = Append(@, Change(0, "Formatted JSON")),
                       !.json_changed = TRUE]
        ELSE t

\* lines 390-396: fix_mixed_indentation
MixedStep(a, t) ==
    LET mx == fix_mixed_indentation(t.content, a.spaces)
    IN  IF a.fix_mixed
        THEN [t EXCEPT !.content = mx.content, !.changes = @ \o mx.changes,
                       !.indent_changes = Len(mx.changes)]
        ELSE t

\* lines 398-402: fix_trailing_spaces
TrailingStep(a, t) ==
    LET tr == fix_trailing_spaces(t.content)
    IN  IF a.fix_trailing
        THEN [t EXCEPT !.content = tr.content, !.changes = @ \o tr.changes,
                       !.trailing_changes = Len(tr.changes)]
        ELSE t

\* lines 404-406: ensure_final_newline
NewlineStep(a, t) ==
    LET nl == ensure_final_newline(t.content)
    IN  IF a.final_newline
        THEN [t EXCEPT !.content = nl.content, !.changes = @ \o nl.changes]
        ELSE t

\* lines 374-406 with the trailing-space fix moved before the tab fix
Transform_TrailingFirst(a, filepath, raw) ==
    NewlineStep(a, MixedStep(a, TrailingStep(a, JsonStep(a, filepath, Decoded(a, raw)))))

\* lines 374-406 of process_file: decode, then each enabled transform in turn
Transform(a, filepath, raw) ==
    NewlineStep(a, TrailingStep(a, MixedStep(a, JsonStep(a, filepath, Decoded(a, raw)))))

\* lines 414-416 with the BOM kept unless remove_bom asks to drop it
Encode_KeepByDefault(a, had_bom, content) ==
    IF had_bom /\ ~a.remove_bom THEN add_bom(EncodeUtf8(content)) ELSE EncodeUtf8(content)

\* lines 414-416 with the BOM prepended whenever keep_bom is set
Encode_KeepOnly(a, had_bom, content) ==
    IF a.keep_bom THEN add_bom(EncodeUtf8(content)) ELSE EncodeUtf8(content)

\* lines 414-416: the bytes process_file would write
Encode(a, had_bom, content) ==
    IF a.keep_bom /\ had_bom THEN add_bom(EncodeUtf8(content)) ELSE EncodeUtf8(content)

\* line 418 with the comparison lost
SameBytes_Never(new_raw, original_raw) == FALSE

\* line 418: new_raw == original_raw
SameBytes(new_raw, original_raw) == new_raw = original_raw

\* lines 430-433 with the increment of files_changed lost
CountChanged_NotCounted(a, had_bom, st) ==
    [st EXCEPT !.bom_removed = @ + (IF ~a.dry_run /\ had_bom /\ a.remove_bom THEN 1 ELSE 0)]

\* lines 430-433 with the count moved under the dry-run test
CountChanged_OnlyWritten(a, had_bom, st) ==
    IF a.dry_run THEN st
    ELSE [st EXCEPT !.files_changed = @ + 1,
                    !.bom_removed = @ + (IF had_bom /\ a.remove_bom THEN 1 ELSE 0)]

\* lines 430-433: the counters of a file reported as changed
CountChanged(a, had_bom, st) ==
    [st EXCEPT !.files_changed = @ + 1,
               !.bom_removed = @ + (IF ~a.dry_run /\ had_bom /\ a.remove_bom THEN 1 ELSE 0)]

\* interactive_confirm with an answer it does not know taken as no
interactive_confirm_UnknownDeclines(response) ==
    IF response \in {"y", "yes", "a", "all"} THEN "True"
    ELSE IF response \in {"q", "quit"} THEN "exit"
    ELSE "False"

\* interactive_confirm with quit taken as no
interactive_confirm_QuitSkips(response) ==
    IF response \in {"y", "yes", "a", "all"} THEN "True"
    ELSE IF response \in {"n", "no", "q", "quit"} THEN "False"
    ELSE "again"

\* interactive_confirm with no taken as yes
interactive_confirm_NoApplies(response) ==
    IF response \in {"y", "yes", "a", "all", "n", "no"} THEN "True"
    ELSE IF response \in {"q", "quit"} THEN "exit"
    ELSE "again"

\* interactive_confirm, lines 216-229, on one answer to its prompt (its change
\* list is never empty where process_file calls it): what it returns, "exit"
\* for sys.exit(0), "again" when it prompts again
interactive_confirm(response) ==
    IF response \in {"y", "yes"} THEN "True"
    ELSE IF response \in {"n", "no"} THEN "False"
    ELSE IF response \in {"a", "all"} THEN "True"
    ELSE IF response \in {"q", "quit"} THEN "exit"
    ELSE "again"

\* a regular file as the disk holds it
File(data, readable, writable) ==
    [kind |-> "file", data |-> data, size |-> Len(data),
     readable |-> readable, writable |-> writable]

\* a path nothing exists at (it can be created)
Absent == [kind |-> "none", data |-> <<>>, size |-> 0, readable |-> FALSE, writable |-> TRUE]

\* open(path, "wb") succeeds
CanOpenForWriting(d, path) == d[path].kind # "dir" /\ d[path].writable

\* with open(path, "wb") as f: f.write(data)
WriteFile(d, path, data) ==
    [d EXCEPT ![path] = [kind |-> "file", data |-> data, size |-> Len(data),
                         readable |-> IF d[path].kind = "none" THEN TRUE
                                      ELSE d[path].readable,
                         writable |-> TRUE]]

\* the record of one process_file invocation
NewCall(filepath, is_path) ==
    [path |-> filepath, is_path |-> is_path, result |-> "pending", read |-> FALSE,
     raw |-> <<>>, had_bom |-> FALSE, content |-> <<>>, changes |-> <<>>,
     prompts |-> 0, answer |-> "none", encoded |-> FALSE, new_raw |-> <<>>]

\* lines 374-412 of process_file, on the bytes read: the counters of the
\* transforms, then the empty change list, then the prompt
Transformed(call, a, st, raw, t) ==
    LET c2 == [call EXCEPT !.read = TRUE, !.raw = raw, !.had_bom = t.had_bom]
        st2 == [st EXCEPT
                   !.json_formatted = @ + (IF t.json_changed THEN 1 ELSE 0),
                   !.tabs_replaced = @ + t.indent_changes,
                   !.lines_fixed = @ + t.indent_changes + t.trailing_changes]
        c3 == [c2 EXCEPT !.content = t.content, !.changes = t.changes]
    IN  IF ~t.ok
        THEN [call |-> [c2 EXCEPT !.result = "raise"], status |-> "raise", stats |-> st]
        ELSE IF t.changes = <<>>
        THEN [call |-> [c3 EXCEPT !.result = "False"], status |-> "return",
              stats |-> st2]
        ELSE IF a.interactive
        THEN [call |-> [c3 EXCEPT !.prompts = 1], status |-> "ask", stats |-> st2]
        ELSE [call |-> c3, status |-> "commit", stats |-> st2]

\* Begin with a size gate that also turns away a file of exactly the limit
Begin_SizeGateInclusive(filepath, is_path, a, m, d, st) ==
    LET call == NewCall(filepath, is_path)
        done(res, status, st2) ==
            [call |-> [call EXCEPT !.result = res], status |-> status, stats |-> st2]
    IN  IF ~is_path
        THEN IF m.active THEN done("raise", "raise", st) ELSE done("False", "return", st)
        ELSE IF m.active /\ should_ignore(m, filepath)
        THEN done("False", "return", [st EXCEPT !.files_skipped = @ + 1])
        ELSE IF d[filepath].kind # "file" THEN done("False", "return", st)
        ELSE IF d[filepath].size >= SizeLimit THEN done("False", "return", st)
        ELSE IF ~d[filepath].readable THEN done("False", "return", st)
        ELSE Transformed(call, a, st, d[filepath].data,
                         Transform(a, filepath, d[filepath].data))

\* lines 348-412 of process_file, up to the interactive prompt.
\* status: "return" (returned False), "raise" (an exception left process_file),
\* "ask" (interactive_confirm prompts), "commit" (goes on to line 414)
Begin(filepath, is_path, a, m, d, st) ==
    LET call == NewCall(filepath, is_path)
        done(res, status, st2) ==
            [call |-> [call EXCEPT !.result = res], status |-> status, stats |-> st2]
    IN  IF ~is_path
        THEN IF m.active THEN done("raise", "raise", st) ELSE done("False", "return", st)
        ELSE IF m.active /\ should_ignore(m, filepath)
        THEN done("False", "return", [st EXCEPT !.files_skipped = @ + 1])
        ELSE IF d[filepath].kind # "file" THEN done("False", "return", st)
        ELSE IF d[filepath].size > SizeLimit THEN done("False", "return", st)
        ELSE IF ~d[filepath].readable THEN done("False", "return", st)
        ELSE Transformed(call, a, st, d[filepath].data,
                         Transform(a, filepath, d[filepath].data))

\* lines 414-440 of process_file: encode, compare, back up, write, count.
\* events: the files opened for writing, in order
Commit(call, k, a, d, st) ==
    LET new_raw == Encode(a, call.had_bom, call.content)
        c2 == [call EXCEPT !.encoded = TRUE, !.new_raw = new_raw]
        bak == backup_path(call.path)
        d1 == IF a.backup THEN WriteFile(d, bak, call.raw) ELSE d
        ev1 == IF a.backup THEN <<[op |-> "backup", path |-> bak, call |-> k]>> ELSE <<>>
        d2 == IF a.dry_run THEN d1 ELSE WriteFile(d1, call.path, new_raw)
        ev2 == IF a.dry_run THEN ev1
               ELSE Append(ev1, [op |-> "write", path |-> call.path, call |-> k])
    IN  IF SameBytes(new_raw, call.raw)
        THEN [call |-> [c2 EXCEPT !.result = "False"], status |-> "return",
              disk |-> d, stats |-> st, events |-> <<>>]
        ELSE IF a.backup /\ ~CanOpenForWriting(d, bak)
        THEN [call |-> [c2 EXCEPT !.result = "raise"], status |-> "raise",
              disk |-> d, stats |-> st, events |-> <<>>]
        ELSE IF ~a.dry_run /\ ~CanOpenForWriting(d1, call.path)
        THEN [call |-> [c2 EXCEPT !.result = "raise"], status |-> "raise",
              disk |-> d1, stats |-> st, events |-> ev1]
        ELSE [call |-> [c2 EXCEPT !.result = "True"], status |-> "return",
              disk |-> d2,
              stats |-> CountChanged(a, call.had_bom, st),
              events |-> ev2]

\* process_file without a prompt, from what Begin gave: lines 414-440 when it
\* goes on, else its return as it stands
Finished(b, a, d) ==
    IF b.status = "commit" THEN Commit(b.call, 1, a, d, b.stats)
    ELSE [call |-> b.call, status |-> b.status, disk |-> d, stats |-> b.stats,
          events |-> <<>>]

\* ------------------------------------------------------------------ world
\* The files of the working directory a run starts from.
BadFile == <<"a", ".", "p", "y">>

LockedFile == <<"b", ".", "p", "y">>

PyFile == <<"c", ".", "p", "y">>

JsonFile == <<"d", ".", "j", "s", "o", "n">>

LogFile == <<"e", ".", "l", "o", "g">>

ReadOnlyFile == <<"r", ".", "p", "y">>

\* directory order, as glob yields it
Listing == <<BadFile, LockedFile, PyFile, JsonFile, LogFile, ReadOnlyFile>>

Universe == {Listing[i] : i \in 1..Len(Listing)}

\* the working directory itself
Cwd == <<>>

AllPaths == Universe \cup {backup_path(p) : p \in Universe} \cup {Cwd}

\* BadFile is not UTF-8, LockedFile cannot be read, ReadOnlyFile cannot be
\* written, LogFile matches the built-in pattern *.log
InitDisk ==
    [p \in AllPaths |->
        IF p = BadFile THEN File(<<LETTER, BadByte>>, TRUE, TRUE)
        ELSE IF p = LockedFile THEN File(<<TAB>>, FALSE, TRUE)
        ELSE IF p = PyFile THEN File(BOM \o <<TAB, LETTER, SP>>, TRUE, TRUE)
        ELSE IF p = JsonFile THEN File(<<DIGIT1>>, TRUE, TRUE)
        ELSE IF p = LogFile THEN File(<<LETTER, SP, LF>>, TRUE, TRUE)
        ELSE IF p = ReadOnlyFile THEN File(<<LETTER>>, TRUE, FALSE)
        ELSE IF p = Cwd THEN [kind |-> "dir", data |-> <<>>, size |-> 0,
                              readable |-> TRUE, writable |-> TRUE]
        ELSE Absent]

\* no ignore file exists in the working directory
IgnoreFiles == <<>>

DefaultSpaces == 4

\* the path arguments of a run: none (the working directory is globbed), or up
\* to MaxFiles of the files in directory order, a file possibly named twice
PathLists ==
    {[i \in 1..Len(ix) |-> Listing[ix[i]]] :
        ix \in {jx \in UNION {[1..n -> 1..Len(Listing)] : n \in 0..MaxFiles} :
                   \A i \in 1..(Len(jx) - 1) : jx[i] <= jx[i + 1]}}

\* every combination of the options process_file reads, under a plain loop
FileFlags ==
    [remove_bom : BOOLEAN, keep_bom : BOOLEAN, format_json : BOOLEAN,
     fix_mixed : BOOLEAN, fix_trailing : BOOLEAN, final_newline : BOOLEAN,
     interactive : BOOLEAN, dry_run : BOOLEAN, backup : BOOLEAN,
     quiet : {FALSE}, progress : {FALSE}, no_gitignore : {FALSE},
     recursive : {FALSE}, git_staged : {FALSE}, git_unstaged : {FALSE},
     git_all_changed : {FALSE}, spaces : {DefaultSpaces}, paths : PathLists]

\* every combination of the options the loop of main reads, all transforms on
LoopFlags ==
    [remove_bom : {FALSE}, keep_bom : {FALSE}, format_json : {TRUE},
     fix_mixed : {TRUE}, fix_trailing : {TRUE}, final_newline : {TRUE},
     interactive : BOOLEAN, dry_run : {FALSE}, backup : {FALSE},
     quiet : BOOLEAN, progress : BOOLEAN, no_gitignore : BOOLEAN,
     recursive : BOOLEAN, git_staged : {FALSE}, git_unstaged : {FALSE},
     git_all_changed : {FALSE}, spaces : {DefaultSpaces}, paths : PathLists]

\* lines 655-660 of main: the mode the git options select
Mode(a) ==
    IF a.git_staged THEN "staged" ELSE IF a.git_unstaged THEN "unstaged" ELSE "all_changed"

GitMode(a) == a.git_staged \/ a.git_unstaged \/ a.git_all_changed

\* runs that take their files from git: all transforms on, a plain loop
GitFlags ==
    {a \in [remove_bom : {FALSE}, keep_bom : {FALSE}, format_json : {TRUE},
            fix_mixed : {TRUE}, fix_trailing : {TRUE}, final_newline : {TRUE},
            interactive : {FALSE}, dry_run : {FALSE}, backup : {FALSE},
            quiet : {FALSE}, progress : {FALSE}, no_gitignore : {FALSE},
            recursive : {FALSE}, git_staged : BOOLEAN, git_unstaged : BOOLEAN,
            git_all_changed : BOOLEAN, spaces : {DefaultSpaces}, paths : {<<>>}] :
        GitMode(a)}

\* what git prints in a mode: nothing, one name, two names
GitOutputs(mode) ==
    IF mode = "all_changed"
    THEN {<<>>,
          <<"M", " ", " ", "c", ".", "p", "y", "\n">>,
          <<"M", " ", " ", "c", ".", "p", "y", "\n", "?", "?", " ", "d", ".", "j", "s", "o", "n", "\n">>,
          <<"A", " ", " ", "d", ".", "j", "s", "o", "n", "\n", "M", " ", " ", "c", ".", "p", "y", "\n">>}
    ELSE {<<>>,
          <<"c", ".", "p", "y", "\n">>,
          <<"c", ".", "p", "y", "\n", "d", ".", "j", "s", "o", "n", "\n">>}

\* no git command is run
NoGit == [found |-> FALSE, returncode |-> 0, stdout |-> <<>>]

\* git is missing, or it ran and exited with status 0 or 1
GitRuns(mode) ==
    {NoGit} \cup [found : {TRUE}, returncode : {0, 1}, stdout : GitOutputs(mode)]

\* the answers typed at the prompt, lowered and stripped
Answers == {"y", "n", "a", "q", "x"}

\* ------------------------------------------------------------------ state
VARIABLES
    args,             \* the parsed options (argparse Namespace)
    has_tqdm,         \* HAS_TQDM
    git,              \* what running the git command gives
    disk,             \* the file system
    pc,               \* where main is: "start", "loop", "prompt", "done", "crashed"
    exit_code,        \* the exit status of the process, -1 while it runs
    processed_files,  \* the files left after gitignore filtering
    iterator,         \* "tqdm", "enumerate" or "list"
    idx,              \* the next position of the iterator
    matcher,          \* gitignore_matcher (active = FALSE: None)
    stats,            \* fixer.stats
    calls,            \* the process_file invocations so far
    log,              \* the files opened for writing so far
    reports,          \* how many times print_stats printed the statistics
    input,            \* the arguments of a function applied on its own
    output            \* what that function returned

vars == <<args, has_tqdm, git, disk, pc, exit_code, processed_files, iterator, idx,
          matcher, stats, calls, log, reports, input, output>>

\* no function is applied on its own during a run of main
NoInput == [kind |-> "none"]

NoOutput == [op |-> "none"]

NoMatcher == [active |-> FALSE, root_dir |-> <<>>, patterns |-> <<>>]

\* TabFix.__init__
InitStats ==
    [files_processed |-> 0, files_changed |-> 0, tabs_replaced |-> 0, lines_fixed |-> 0,
     bom_removed |-> 0, json_formatted |-> 0, mixed_indent_files |-> 0,
     files_skipped |-> 0]

Init ==
    /\ \/ args \in FileFlags /\ has_tqdm = TRUE /\ git = NoGit
       \/ args \in LoopFlags /\ has_tqdm \in BOOLEAN /\ git = NoGit
       \/ args \in GitFlags /\ has_tqdm = TRUE /\ git \in GitRuns(Mode(args))
    /\ disk = InitDisk
    /\ pc = "start"
    /\ exit_code = -1
    /\ processed_files = <<>>
    /\ iterator = "list"
    /\ idx = 1
    /\ matcher = NoMatcher
    /\ stats = InitStats
    /\ calls = <<>>
    /\ log = <<>>
    /\ reports = 0
    /\ input = NoInput
    /\ output = NoOutput

\* ------------------------------------------------------------------- main
\* path.glob("*") / path.glob("**/*") filtered by is_file, for the working directory
GlobFiles(d, dir) ==
    LET isfile(p) == d[p].kind = "file" /\ Parent(p) = dir IN SelectSeq(Listing, isfile)

\* lines 662-680 of main: the files the path arguments name
RECURSIVE Discover(_, _)
Discover(d, paths) ==
    IF paths = <<>> THEN <<>>
    ELSE (IF d[Head(paths)].kind = "none" THEN <<>>
          ELSE IF d[Head(paths)].kind = "file" THEN <<Head(paths)>>
          ELSE GlobFiles(d, Head(paths)))
         \o Discover(d, Tail(paths))

\* lines 687-701 of main: the matcher, rooted at the first parent directory of
\* a file that holds a .gitignore, else at the working directory
MatcherFor(files) ==
    LET has(k) == Child(Parent(files[k]), DotGitignore) \in DOMAIN IgnoreFiles
        root == IF \E k \in 1..Len(files) : has(k)
                THEN Parent(files[CHOOSE k \in 1..Len(files) :
                                     has(k) /\ \A j \in 1..(k - 1) : ~has(j)])
                ELSE Cwd
    IN  [active |-> TRUE] @@ GitignoreMatcher(root, IgnoreFiles)

\* lines 721-731 of main
SelectIterator(a, tqdm) ==
    IF a.progress /\ tqdm /\ ~a.interactive THEN "tqdm"
    ELSE IF a.progress /\ ~tqdm /\ ~a.quiet THEN "enumerate"
    ELSE "list"

\* main, lines 632-731: option check, discovery, filtering, iterator
Start ==
    /\ pc = "start"
    /\ UNCHANGED <<args, has_tqdm, git, disk, idx, stats, calls, log, reports,
                   input, output>>
    /\ IF args.remove_bom /\ args.keep_bom
       THEN /\ pc' = "done"
            /\ exit_code' = 1
            /\ UNCHANGED <<processed_files, iterator, matcher>>
       ELSE LET files_to_process ==
                    IF GitMode(args) THEN get_git_files(Mode(args), git)
                    ELSE Discover(disk, IF args.paths = <<>> THEN <<Cwd>> ELSE args.paths)
                m == IF ~args.no_gitignore /\ files_to_process # <<>>
                     THEN MatcherFor(files_to_process) ELSE NoMatcher
                keep(p) == ~(m.active /\ should_ignore(m, p))
                kept == SelectSeq(files_to_process, keep)
            IN  /\ matcher' = m
                /\ processed_files' = kept
                /\ IF kept = <<>>
                   THEN /\ pc' = "done"
                        /\ exit_code' = 0
                        /\ UNCHANGED iterator
                   ELSE /\ pc' = "loop"
                        /\ exit_code' = exit_code
                        /\ iterator' = SelectIterator(args, has_tqdm)

\* what the end of a process_file invocation does to the run
Resume(r) ==
    /\ stats' = r.stats
    /\ IF r.status = "raise"
       THEN pc' = "crashed" /\ exit_code' = 1
       ELSE pc' = "loop" /\ exit_code' = exit_code

\* one iteration of the loop of main, lines 733-746
ProcessNext ==
    /\ pc = "loop"
    /\ idx <= Len(processed_files)
    /\ idx' = idx + 1
    /\ UNCHANGED <<args, has_tqdm, git, processed_files, iterator, matcher, reports,
                   input, output>>
    /\ LET unpacks == args.progress /\ ~has_tqdm /\ ~args.interactive
           filepath == processed_files[idx]
       IN  IF unpacks /\ iterator # "enumerate"
           THEN /\ pc' = "crashed"
                /\ exit_code' = 1
                /\ UNCHANGED <<disk, stats, calls, log>>
           ELSE \E b \in {Begin(filepath, unpacks \/ iterator # "enumerate",
                                args, matcher, disk, stats)} :
                    IF b.status = "ask"
                    THEN /\ pc' = "prompt"
                         /\ calls' = Append(calls, b.call)
                         /\ stats' = b.stats
                         /\ UNCHANGED <<disk, log, exit_code>>
                    ELSE IF b.status = "commit"
                    THEN \E c \in {Commit(b.call, Len(calls) + 1, args, disk, b.stats)} :
                            /\ calls' = Append(calls, c.call)
                            /\ disk' = c.disk
                            /\ log' = log \o c.events
                            /\ Resume(c)
                    ELSE /\ calls' = Append(calls, b.call)
                         /\ UNCHANGED <<disk, log>>
                         /\ Resume(b)

\* one answer at the prompt of interactive_confirm, lines 216-229, and what
\* process_file does with it
Respond(response) ==
    /\ pc = "prompt"
    /\ UNCHANGED <<args, has_tqdm, git, processed_files, iterator, idx, matcher,
                   reports, input, output>>
    /\ LET k == Len(calls)
           call == [calls[k] EXCEPT !.answer = response]
           answer == interactive_confirm(response)
       IN  IF answer = "True"
           THEN \E c \in {Commit(call, k, args, disk, stats)} :
                   /\ calls' = [calls EXCEPT ![k] = c.call]
                   /\ disk' = c.disk
                   /\ log' = log \o c.events
                   /\ Resume(c)
           ELSE IF answer = "False"
           THEN /\ calls' = [calls EXCEPT ![k] = [call EXCEPT !.result = "False"]]
                /\ pc' = "loop"
                /\ UNCHANGED <<disk, log, stats, exit_code>>
           ELSE IF answer = "exit"
           THEN /\ calls' = [calls EXCEPT ![k] = [call EXCEPT !.result = "exit"]]
                /\ pc' = "done"
                /\ exit_code' = 0
                /\ UNCHANGED <<disk, log, stats>>
           ELSE /\ calls[k].prompts <= MaxReprompts
                /\ calls' = [calls EXCEPT ![k] = [call EXCEPT !.prompts = @ + 1]]
                /\ UNCHANGED <<disk, log, stats, pc, exit_code>>

\* print_stats: whether the table of counters is printed, whether the percent
\* line follows it, and the figure of that line (in tenths of a percent)
print_stats(a, st) ==
    [printed |-> ~a.quiet,
     percent_shown |-> ~a.quiet /\ st.files_processed > 0,
     changed_percent |-> IF st.files_processed > 0
                         THEN (st.files_changed * 1000) \div st.files_processed
                         ELSE 0]

\* the end of main, lines 748-751, with print_stats
Finish ==
    /\ pc = "loop"
    /\ idx > Len(processed_files)
    /\ pc' = "done"
    /\ exit_code' = 0
    /\ reports' = IF print_stats(args, stats).printed THEN reports + 1 ELSE reports
    /\ UNCHANGED <<args, has_tqdm, git, disk, processed_files, iterator, idx, matcher,
                   stats, calls, log, input, output>>

Next ==
    \/ Start
    \/ ProcessNext
    \/ \E response \in Answers : Respond(response)
    \/ Finish

Spec == Init /\ [][Next]_vars

\* ------------------------------------------------- functions on their own
\* The methods of TabFix and GitignoreMatcher are public: here each is applied
\* once, on its own, to arguments drawn from bounded sets.

\* the code points texts are made of
Alphabet == {TAB, SP, LF, LETTER, DIGIT1, LBRACKET, RBRACKET}

Texts == UNION {[1..n -> Alphabet] : n \in 0..MaxLen}

\* texts with carriage returns, as files with CRLF line ends hold them
CrlfTexts == UNION {[1..n -> {CR, LF, SP, LETTER}] : n \in 0..MaxLen}

ShortTexts == UNION {[1..n -> Alphabet] : n \in 0..(MaxLen - 2)}

\* spaces_per_tab
Widths == {2, DefaultSpaces}

\* "def f():\n\tpass  \n"
Example == <<100, 101, 102, 32, 102, 40, 41, 58, 10, 9, 112, 97, 115, 115, 32, 32, 10>>

\* "[1,1]"
CompactJson == <<LBRACKET, DIGIT1, COMMA, DIGIT1, RBRACKET>>

\* "[\n    1\n]"
CanonicalJson == <<LBRACKET, LF, SP, SP, SP, SP, DIGIT1, LF, RBRACKET>>

\* "x\r\nx \r\n"
CrlfExample == <<LETTER, CR, LF, LETTER, SP, CR, LF>>

\* "1\r\n"
CrlfJson == <<DIGIT1, CR, LF>>

Samples == {Example, CompactJson, CanonicalJson, CrlfExample, CrlfJson}

UpperJsonFile == <<"D", ".", "J", "S", "O", "N">>

\* the options lines 374-412 of process_file read
PipelineFlags ==
    [remove_bom : BOOLEAN, format_json : BOOLEAN, fix_mixed : BOOLEAN,
     fix_trailing : BOOLEAN, final_newline : BOOLEAN, interactive : {FALSE},
     spaces : {DefaultSpaces}]

\* the arguments of fix_mixed_indentation, fix_trailing_spaces,
\* ensure_final_newline and format_json
TextInputs == [kind : {"text"}, content : Texts \cup CrlfTexts, spaces : Widths]

\* a file as process_file reads it, with and without a BOM
FileInputs ==
    [kind : {"file"}, a : PipelineFlags, filepath : {PyFile, JsonFile, UpperJsonFile},
     raw : UNION {{EncodeUtf8(t), add_bom(EncodeUtf8(t))} : t \in ShortTexts \cup Samples}]

\* the options as argparse leaves them when none is given
DefaultArgs ==
    [remove_bom |-> FALSE, keep_bom |-> FALSE, format_json |-> FALSE,
     fix_mixed |-> FALSE, fix_trailing |-> FALSE, final_newline |-> FALSE,
     interactive |-> FALSE, dry_run |-> FALSE, backup |-> FALSE, quiet |-> FALSE,
     progress |-> FALSE, no_gitignore |-> FALSE, recursive |-> FALSE,
     git_staged |-> FALSE, git_unstaged |-> FALSE, git_all_changed |-> FALSE,
     spaces |-> DefaultSpaces, paths |-> <<>>]

\* what can be at the path given to process_file: a file of a few bytes, the
\* same file with a size (st_size) one below the limit, at the limit and one
\* above it, a file that cannot be read, a directory, nothing
Entries ==
    LET small == File(<<TAB, LETTER, SP>>, TRUE, TRUE)
    IN  {small,
         [small EXCEPT !.size = SizeLimit - 1],
         [small EXCEPT !.size = SizeLimit],
         [small EXCEPT !.size = SizeLimit + 1],
         [small EXCEPT !.readable = FALSE],
         [small EXCEPT !.size = SizeLimit + 1, !.readable = FALSE],
         [kind |-> "dir", data |-> <<>>, size |-> 0, readable |-> TRUE, writable |-> TRUE],
         Absent}

\* the options of a process_file call on its own: no prompt, no dry run
EntryFlags ==
    {[DefaultArgs EXCEPT !.fix_mixed = f[1], !.fix_trailing = f[2],
                         !.final_newline = f[3], !.backup = f[4], !.no_gitignore = f[5]] :
        f \in [1..5 -> BOOLEAN]}

\* process_file(filepath, args, gitignore_matcher) with the entry at filepath
EntryInputs == [kind : {"entry"}, a : EntryFlags, filepath : {PyFile}, entry : Entries]

\* the root given to GitignoreMatcher: the working directory or a directory R of it
Roots == {Cwd, <<"R">>}

\* what a line of an ignore file can be: a name, a glob, negations, a
\* directory, a comment, an empty line, a name between blanks
LineChoices ==
    {<<"n", ".", "t", "x", "t">>,
     <<"*", ".", "t", "x", "t">>,
     <<"!", "n", ".", "t", "x", "t">>,
     <<"!", "*", ".", "t", "x", "t">>,
     <<"o", "u", "t", "/">>,
     <<"#", "n", ".", "t", "x", "t">>,
     <<>>,
     <<" ", "n", ".", "t", "x", "t">>}

IgnoreLines == UNION {[1..n -> LineChoices] : n \in 0..MaxLines}

\* paths below the root, relative to it
InsidePaths ==
    {<<"n", ".", "t", "x", "t">>,
     <<"a", "/", "n", ".", "t", "x", "t">>,
     <<"a", "/", "b", "/", "n", ".", "t", "x", "t">>,
     <<"m", ".", "p", "y">>,
     <<"o", "u", "t", "/", "o", ".", "t", "x", "t">>,
     <<"b", "u", "i", "l", "d", "/", "o", "u", "t", ".", "t", "x", "t">>,
     <<"a", "/", "b", "/", "x", ".", "l", "o", "g">>,
     <<"b", "u", "i", "l", "d", "e", "r", ".", "p", "y">>,
     <<"a", "/", "b", "u", "i", "l", "d", "/", "o", "u", "t", ".", "t", "x", "t">>}

\* paths that are not below R
OutsidePaths == {<<"x", ".", "l", "o", "g">>, <<"S", "/", "n", ".", "t", "x", "t">>, <<"R", "x", "/", "n", ".", "t", "x", "t">>}

\* the paths should_ignore is asked about under root: those below it, the
\* root itself and, under R, some not below it
ProbePaths(root) ==
    {Child(root, rel) : rel \in InsidePaths} \cup {root}
        \cup (IF root = Cwd THEN {} ELSE OutsidePaths)

\* a matcher's root, the ignore file that exists below it ("gitignore" for
\* .gitignore, "exclude" for .git/info/exclude) with its lines, and a path
PathInputs ==
    UNION {[kind : {"path"}, root_dir : {root}, file : {"gitignore", "exclude"},
            lines : IgnoreLines, path : ProbePaths(root)] : root \in Roots}

\* the ignore files on disk for an input
IgnoreFilesOf(root, file, lines) ==
    IF file = "gitignore" THEN Child(root, DotGitignore) :> lines
    ELSE Child(root, InfoExclude) :> lines

\* main is not running
Idle ==
    /\ args = DefaultArgs
    /\ has_tqdm = TRUE
    /\ git = NoGit
    /\ disk = InitDisk
    /\ pc = "idle"
    /\ exit_code = -1
    /\ processed_files = <<>>
    /\ iterator = "list"
    /\ idx = 1
    /\ matcher = NoMatcher
    /\ stats = InitStats
    /\ calls = <<>>
    /\ log = <<>>
    /\ reports = 0

FuncInit ==
    /\ Idle
    /\ input \in TextInputs \cup FileInputs \cup PathInputs \cup EntryInputs
    /\ output = NoOutput

\* one call and what it returned
Apply(op, result) ==
    /\ output = NoOutput
    /\ output' = [op |-> op, result |-> result]
    /\ UNCHANGED <<args, has_tqdm, git, disk, pc, exit_code, processed_files, iterator,
                   idx, matcher, stats, calls, log, reports, input>>

ApplyFixMixed ==
    /\ input.kind = "text"
    /\ Apply("fix_mixed_indentation", fix_mixed_indentation(input.content, input.spaces))

ApplyFixTrailing ==
    /\ input.kind = "text"
    /\ Apply("fix_trailing_spaces", fix_trailing_spaces(input.content))

ApplyFinalNewline ==
    /\ input.kind = "text"
    /\ Apply("ensure_final_newline", ensure_final_newline(input.content))

ApplyFormatJson ==
    /\ input.kind = "text"
    /\ Apply("format_json", format_json(input.content, input.spaces))

\* lines 374-412 of process_file on the bytes of a file, from fresh counters
ApplyPipeline ==
    /\ input.kind = "file"
    /\ Apply("pipeline",
             Transformed(NewCall(input.filepath, TRUE), input.a, InitStats, input.raw,
                         Transform(input.a, input.filepath, input.raw)))

\* GitignoreMatcher(root_dir).should_ignore(path)
ApplyShouldIgnore ==
    /\ input.kind = "path"
    /\ Apply("should_ignore",
             should_ignore(GitignoreMatcher(input.root_dir,
                               IgnoreFilesOf(input.root_dir, input.file, input.lines)),
                           input.path))

\* the disk process_file finds for an input
EntryDisk == [InitDisk EXCEPT ![input.filepath] = input.entry]

\* process_file on a path of its own, from fresh counters
ApplyProcessFile ==
    /\ input.kind = "entry"
    /\ \E m \in {IF input.a.no_gitignore THEN NoMatcher ELSE MatcherFor(<<input.filepath>>)} :
       \E b \in {Begin(input.filepath, TRUE, input.a, m, EntryDisk, InitStats)} :
           Apply("process_file", Finished(b, input.a, EntryDisk))

FuncNext ==
    \/ ApplyFixMixed
    \/ ApplyFixTrailing
    \/ ApplyFinalNewline
    \/ ApplyFormatJson
    \/ ApplyPipeline
    \/ ApplyShouldIgnore
    \/ ApplyProcessFile

FuncSpec == FuncInit /\ [][FuncNext]_vars


\* ----------------------------------------------------------------- history
Invocations == 1..Len(calls)

\* the invocations that returned True
Changed == {k \in Invocations : calls[k].result = "True"}

\* the files invocation k opened for writing, as positions of the log
OpenedBy(k) == {e \in 1..Len(log) : log[e].call = k}

\* invocation k reached the comparison of line 418 with different bytes
Differs(k) == calls[k].encoded /\ calls[k].new_raw # calls[k].raw

RunOver == pc \in {"done", "crashed"}

QuitGiven == \E k \in Invocations : calls[k].result = "exit"

\* ------------------------------------------------------------------ claims
\* C1: in every process_file invocation the target is opened for writing, a
\* .bak is created and files_changed is incremented only if the re-encoded
\* bytes differ from the raw bytes read; when they are equal none of the three
\* happens and the invocation returns False.
C1_WritesOnlyChangedBytes ==
    /\ \A e \in 1..Len(log) : Differs(log[e].call)
    /\ disk # InitDisk => log # <<>>
    /\ stats.files_changed = Cardinality(Changed)
    /\ \A k \in Changed : Differs(k)
    /\ \A k \in Invocations :
           (calls[k].encoded /\ calls[k].new_raw = calls[k].raw)
               => calls[k].result = "False" /\ OpenedBy(k) = {}

\* an invocation found changes whose bytes equal the file's, after one that wrote
C1_Witness ==
    \E k \in Invocations :
        /\ calls[k].changes # <<>>
        /\ calls[k].encoded
        /\ calls[k].new_raw = calls[k].raw
        /\ \E j \in Changed : j < k /\ OpenedBy(j) # {}

\* C2: with dry-run enabled no process_file invocation creates or modifies a
\* file, whatever the other options: neither the target nor a .bak sibling.
C2_DryRunWritesNothing == args.dry_run => (disk = InitDisk /\ log = <<>>)

\* some invocation failed on its file: it raised, or the file could not be read
FileFailed(k) ==
    /\ calls[k].is_path
    /\ \/ calls[k].result = "raise"
       \/ disk[calls[k].path].kind = "file" /\ ~disk[calls[k].path].readable

\* C3: a file that fails never aborts the run: unless the user quits, every
\* file of the list is handed to process_file and the run reaches its final
\* statistics report.
C3_FailureNeverAborts ==
    (RunOver /\ ~QuitGiven /\ \E k \in Invocations : FileFailed(k))
        => (pc = "done" /\ exit_code = 0 /\ Len(calls) = Len(processed_files))

\* the files the run has written, each holding the output of a pass
Written == {log[e].path : e \in {i \in 1..Len(log) : log[i].op = "write"}}

\* C4: a second pass of the enabled transforms over the output of a pass
\* yields the same content and an empty change list.
C4_SecondPassChangesNothing ==
    \A p \in Written :
        LET t == Transform(args, p, disk[p].data)
        IN  /\ t.ok
            /\ t.changes = <<>>
            /\ t.content = DecodeUtf8Sig(disk[p].data).text

\* the bytes the claim expects process_file to write in invocation k
ExpectedBytes(k) ==
    IF args.keep_bom /\ StartsWith(calls[k].raw, BOM)
    THEN BOM \o EncodeUtf8(calls[k].content)
    ELSE EncodeUtf8(calls[k].content)

\* C5: the bytes process_file writes are the BOM followed by the encoding of
\* the transformed text if and only if keep_bom is set and the raw bytes began
\* with the BOM, and otherwise exactly the encoding of the transformed text.
C5_BomOnWrite ==
    LET k == Len(calls)
    IN  (k > 0 /\ OpenedBy(k) # {} /\ calls[k].result = "True" /\ ~args.dry_run)
            => /\ disk[calls[k].path].data = ExpectedBytes(k)
               /\ (StartsWith(disk[calls[k].path].data, BOM \o EncodeUtf8(calls[k].content))
                       <=> (args.keep_bom /\ StartsWith(calls[k].raw, BOM)))

\* a file that began with the BOM was written with keep_bom set, after a file
\* without one was written under the same options
C5_Witness ==
    /\ args.keep_bom
    /\ Len(calls) = 2
    /\ \A k \in Invocations : calls[k].result = "True" /\ ~args.dry_run
    /\ ~StartsWith(calls[2].raw, BOM)
    /\ StartsWith(calls[1].raw, BOM)
    /\ StartsWith(disk[calls[1].path].data, BOM)

\* the position in the log of the event op of invocation k (0: none)
EventAt(k, op) ==
    IF \E e \in OpenedBy(k) : log[e].op = op
    THEN CHOOSE e \in OpenedBy(k) : log[e].op = op
    ELSE 0

\* C6: when backup is enabled and process_file overwrites a file, the path
\* made by appending ".bak" to the file's path holds the raw bytes read from
\* the file, and it was written before the target was opened for writing.
C6_BackupBeforeOverwrite ==
    LET k == Len(calls)
    IN  (k > 0 /\ args.backup /\ EventAt(k, "write") # 0)
            => /\ (calls[k].path \o DotBak) \in DOMAIN disk
               /\ disk[calls[k].path \o DotBak].kind = "file"
               /\ disk[calls[k].path \o DotBak].data = calls[k].raw
               /\ EventAt(k, "backup") # 0
               /\ EventAt(k, "backup") < EventAt(k, "write")
               /\ log[EventAt(k, "backup")].path = calls[k].path \o DotBak

\* a file was overwritten with backup enabled
C6_Witness ==
    /\ args.backup
    /\ Len(calls) > 0
    /\ EventAt(Len(calls), "write") # 0
    /\ disk[calls[Len(calls)].path].data # calls[Len(calls)].raw

\* the last invocation that wrote path p (0: none)
LastWriter(p) ==
    IF \E e \in 1..Len(log) : log[e].op = "write" /\ log[e].path = p
    THEN log[CHOOSE e \in 1..Len(log) :
                 /\ log[e].op = "write" /\ log[e].path = p
                 /\ \A f \in 1..Len(log) :
                        (log[f].op = "write" /\ log[f].path = p) => f <= e].call
    ELSE 0

\* C7: an answer of quit at the prompt for file k ends the run at once with
\* exit code 0: file k and the later files are never written, and every file
\* written before keeps its new content.
C7_QuitEndsRun ==
    \A k \in Invocations :
        calls[k].answer = "q"
            => /\ calls[k].result = "exit"
               /\ k = Len(calls)
               /\ pc = "done"
               /\ exit_code = 0
               /\ OpenedBy(k) = {}
               /\ disk[calls[k].path].data = calls[k].raw
               /\ \A p \in Written : disk[p].data = calls[LastWriter(p)].new_raw

\* the user quit at the second file after the first was written
C7_Witness ==
    /\ Len(calls) = 2
    /\ calls[2].answer = "q"
    /\ calls[1].result = "True"
    /\ Written # {}
    /\ Len(processed_files) = 2

\* C8: an answer of no at the prompt skips that file only: its bytes are
\* unchanged, no .bak is created, files_changed is not incremented, the
\* invocation returns False, and the run goes on with the files after it (it
\* never ends at the declined file while files are left).
C8_DeclineSkipsOneFile ==
    /\ stats.files_changed = Cardinality(Changed)
    /\ \A k \in Invocations :
           calls[k].answer = "n"
               => /\ calls[k].result = "False"
                  /\ OpenedBy(k) = {}
                  /\ k = Len(calls) =>
                         /\ disk[calls[k].path].data = calls[k].raw
                         /\ pc \in {"loop", "done"}
                         /\ pc = "done" => k = Len(processed_files)
                         /\ idx = k + 1
                  /\ (RunOver /\ k < Len(processed_files)) =>
                         /\ Len(calls) > k
                         /\ calls[k + 1].path = processed_files[k + 1]
                         /\ \/ Len(calls) = Len(processed_files)
                            \/ calls[Len(calls)].result \in {"exit", "raise"}

\* the user declined the first file and the second was then written
C8_Witness ==
    /\ Len(calls) = 2
    /\ calls[1].answer = "n"
    /\ calls[2].result = "True"
    /\ OpenedBy(2) # {}
    /\ pc = "done"

\* C9: the exit status of a run is non-zero only when remove_bom and keep_bom
\* are both given, and 0 for every other outcome.
C9_ExitStatus ==
    exit_code # -1 => (exit_code # 0 <=> (args.remove_bom /\ args.keep_bom))

\* C10: with dry-run enabled, a file whose transformed bytes differ from its
\* bytes (and which the user confirms, if asked) keeps its bytes on disk, yet
\* process_file returns True for it and adds exactly one to files_changed.
C10_DryRunCountsUnwritten ==
    args.dry_run =>
        /\ stats.files_changed = Cardinality(Changed)
        /\ \A k \in Invocations :
               /\ calls[k].read => disk[calls[k].path].data = calls[k].raw
               /\ (Differs(k) /\ (calls[k].answer \in {"none", "y", "a"}))
                      => calls[k].result = "True"
               /\ \A e \in OpenedBy(k) : log[e].op # "write"

\* under dry-run a confirmed file was reported as changed
C10_Witness ==
    /\ args.dry_run
    /\ args.interactive
    /\ \E k \in Changed : calls[k].answer = "y" /\ Differs(k)
    /\ stats.files_changed > 0

\* ------------------------------------------- claims on the text transforms
\* the 1-based numbers of the lines that satisfy Test, in increasing order
LinesWhere(lines, Test(_)) ==
    LET keep(i) == Test(lines[i]) IN SelectSeq([i \in 1..Len(lines) |-> i], keep)

\* one change with message msg for each line number in nums
ChangesAt(nums, msg) == [k \in 1..Len(nums) |-> Change(nums[k], msg)]

\* a line with each of its tabs replaced by w spaces
RECURSIVE TabsExpanded(_, _)
TabsExpanded(line, w) ==
    IF line = <<>> THEN <<>>
    ELSE (IF Head(line) = TAB THEN [i \in 1..w |-> SP] ELSE <<Head(line)>>)
         \o TabsExpanded(Tail(line), w)

\* the text left of the trailing whitespace of a line
Stripped(line) ==
    LET ends == {n \in 0..Len(line) : \A i \in (n + 1)..Len(line) : IsSpace(line[i])}
    IN  SubSeq(line, 1, CHOOSE n \in ends : \A m \in ends : n <= m)

\* C12: fix_mixed_indentation with width w replaces every tab, wherever it
\* stands, by w spaces and changes nothing else: the lines stay as many, the
\* output holds no tab, and the changes are one "Tabs -> spaces" entry for
\* each line that held a tab, in increasing line order.
C12_TabsBecomeSpaces ==
    output.op = "fix_mixed_indentation" =>
        LET old == Split(input.content, LF)
            new == Split(output.result.content, LF)
        IN  /\ Len(new) = Len(old)
            /\ \A i \in 1..Len(old) : new[i] = TabsExpanded(old[i], input.spaces)
            /\ \A i \in 1..Len(output.result.content) : output.result.content[i] # TAB
            /\ output.result.changes = ChangesAt(LinesWhere(old, HasTab), "Tabs -> spaces")

\* "\t\tx" at width 4 has become eight spaces and x, with one change for line 1
C12_Witness ==
    /\ output.op = "fix_mixed_indentation"
    /\ input.content = <<TAB, TAB, LETTER>>
    /\ input.spaces = 4
    /\ output.result.content = <<SP, SP, SP, SP, SP, SP, SP, SP, LETTER>>
    /\ output.result.changes = <<Change(1, "Tabs -> spaces")>>

\* C13: fix_trailing_spaces strips the trailing whitespace of every line and
\* neither removes nor adds a line: a whitespace-only line becomes empty, no
\* output line ends in whitespace, and the changes are one "Removed trailing
\* spaces" entry for each line that became shorter.
C13_TrailingWhitespaceStripped ==
    output.op = "fix_trailing_spaces" =>
        LET old == Split(input.content, LF)
            new == Split(output.result.content, LF)
            shorter(line) == Len(Stripped(line)) < Len(line)
        IN  /\ Len(new) = Len(old)
            /\ \A i \in 1..Len(old) :
                   /\ new[i] = Stripped(old[i])
                   /\ new[i] = <<>> \/ ~IsSpace(new[i][Len(new[i])])
                   /\ (\A j \in 1..Len(old[i]) : IsSpace(old[i][j])) => new[i] = <<>>
            /\ output.result.changes =
                   ChangesAt(LinesWhere(old, shorter), "Removed trailing spaces")

\* a line of text and a whitespace-only line were stripped, both lines kept
C13_Witness ==
    /\ output.op = "fix_trailing_spaces"
    /\ input.content = <<LETTER, SP, LF, TAB>>
    /\ output.result.content = <<LETTER, LF>>
    /\ Len(output.result.changes) = 2

\* C14: ensure_final_newline appends one newline and records "Added final
\* newline" exactly when the content is not empty and does not end with a
\* newline; otherwise it returns the content as it is, with no change, however
\* many newlines end it.
C14_FinalNewline ==
    output.op = "ensure_final_newline" =>
        IF input.content # <<>> /\ input.content[Len(input.content)] # LF
        THEN /\ output.result.content = input.content \o <<LF>>
             /\ output.result.changes = <<Change(0, "Added final newline")>>
        ELSE /\ output.result.content = input.content
             /\ output.result.changes = <<>>

\* a text without a final newline got one
C14_Witness ==
    /\ output.op = "ensure_final_newline"
    /\ input.content = <<LETTER>>
    /\ output.result.content = <<LETTER, LF>>
    /\ output.result.changes # <<>>

\* ------------------------------------------------ claims on the pipeline
\* "def f():\n    pass\n"
ExampleFixed == <<100, 101, 102, 32, 102, 40, 41, 58, 10, 32, 32, 32, 32, 112, 97, 115, 115, 10>>

\* the text the transforms after the JSON step make of t, and their changes
AfterJson(a, t) ==
    LET mx == fix_mixed_indentation(t, a.spaces)
        t2 == IF a.fix_mixed THEN mx.content ELSE t
        tr == fix_trailing_spaces(t2)
        t3 == IF a.fix_trailing THEN tr.content ELSE t2
        nl == ensure_final_newline(t3)
    IN  [content |-> IF a.final_newline THEN nl.content ELSE t3,
         changes |-> (IF a.fix_mixed THEN mx.changes ELSE <<>>)
                     \o (IF a.fix_trailing THEN tr.changes ELSE <<>>)
                     \o (IF a.final_newline THEN nl.changes ELSE <<>>)]

\* C11: the result of the pipeline is the composition, in the order BOM
\* handling, JSON formatting, tab fix, trailing-whitespace fix, final newline,
\* of the enabled transforms, each on the output of the one before, and its
\* change list is their change lists joined in that order; a disabled transform
\* adds nothing. "def f():\n\tpass  \n" under tab fix, trailing fix and final
\* newline at width 4 gives "def f():\n    pass\n" with one tab change and one
\* trailing change and no final-newline change.
C11_PipelineIsComposition ==
    output.op = "pipeline" =>
        LET a == input.a
            text == DecodeUtf8Sig(input.raw).text
            bom == IF a.remove_bom /\ StartsWith(input.raw, BOM)
                   THEN <<Change(0, "Removed BOM")>> ELSE <<>>
            json_on == a.format_json /\ Lower(Suffix(input.filepath)) = DotJson
            js == format_json(text, a.spaces)
            rest == AfterJson(a, IF json_on THEN js.content ELSE text)
        IN  /\ output.result.call.content = rest.content
            /\ output.result.call.changes =
                   bom \o (IF json_on /\ js.changed
                           THEN <<Change(0, "Formatted JSON")>> ELSE <<>>)
                       \o rest.changes
            /\ (/\ input.raw = EncodeUtf8(Example)
                /\ a.fix_mixed /\ a.fix_trailing /\ a.final_newline
                /\ ~a.format_json /\ ~a.remove_bom)
               => /\ output.result.call.content = ExampleFixed
                  /\ output.result.call.changes =
                         <<Change(2, "Tabs -> spaces"),
                           Change(2, "Removed trailing spaces")>>

\* the example file went through tab fix, trailing fix and final newline
C11_Witness ==
    /\ output.op = "pipeline"
    /\ input.raw = EncodeUtf8(Example)
    /\ input.a.fix_mixed /\ input.a.fix_trailing /\ input.a.final_newline
    /\ ~input.a.format_json /\ ~input.a.remove_bom
    /\ output.result.call.content = ExampleFixed
    /\ Len(output.result.call.changes) = 2

\* C15: the JSON step records "Formatted JSON" and replaces the text exactly
\* when the option is on, the extension is .json (in any case), the text
\* parses and its re-serialization differs from it; on a parse failure or on
\* canonical input the text is unchanged, no change is recorded, json_formatted
\* stays, and the other enabled transforms run on the unchanged text.
C15_JsonStepFiresIff ==
    output.op = "pipeline" =>
        LET a == input.a
            text == DecodeUtf8Sig(input.raw).text
            parsed == JsonLoads(text)
            fires == /\ a.format_json
                     /\ Lower(Suffix(input.filepath)) = DotJson
                     /\ parsed.ok
                     /\ JsonDumps(parsed.val, a.spaces) # text
            recorded == \E k \in 1..Len(output.result.call.changes) :
                            output.result.call.changes[k].msg = "Formatted JSON"
        IN  /\ recorded <=> fires
            /\ output.result.stats.json_formatted = (IF fires THEN 1 ELSE 0)
            /\ output.result.call.content =
                   AfterJson(a, IF fires THEN JsonDumps(parsed.val, a.spaces)
                                ELSE text).content
            /\ ~fires => output.result.call.changes =
                             (IF a.remove_bom /\ StartsWith(input.raw, BOM)
                              THEN <<Change(0, "Removed BOM")>> ELSE <<>>)
                             \o AfterJson(a, text).changes

\* a .json file that does not parse: nothing recorded for JSON, and the tab
\* fix still ran on the text
C15_Witness ==
    /\ output.op = "pipeline"
    /\ input.a.format_json /\ input.a.fix_mixed
    /\ input.filepath = JsonFile
    /\ input.raw = <<LBRACKET, TAB>>
    /\ output.result.stats.json_formatted = 0
    /\ output.result.call.changes = <<Change(1, "Tabs -> spaces")>>
    /\ output.result.call.content = <<LBRACKET, SP, SP, SP, SP>>

\* ------------------------------------------------- claims on the matcher
\* path lies below root and is not root
UnderRoot(root, path) ==
    path # root /\ (root = <<>> \/ StartsWith(path, root \o <<SLASH>>))

\* path as a string relative to root
RelativeTo(root, path) == IF root = <<>> THEN path ELSE Drop(path, Len(root) + 1)

\* the matcher the input describes
InputMatcher ==
    GitignoreMatcher(input.root_dir,
                     IgnoreFilesOf(input.root_dir, input.file, input.lines))

\* C16: a pattern read from .gitignore or .git/info/exclude that holds no
\* path separator matches at any depth: every file below the root, directly in
\* it or nested, whose base name glob-matches the pattern is ignored.
C16_BareNameMatchesAnyDepth ==
    (output.op = "should_ignore" /\ UnderRoot(input.root_dir, input.path)) =>
        \A i \in 1..Len(input.lines) :
            LET line == Strip(input.lines[i])
            IN  (/\ line # <<>>
                 /\ line[1] \notin {"#", "!"}
                 /\ ~Contains(line, SLASH)
                 /\ FnMatch(Name(input.path), line))
                => output.result = TRUE

\* what the claim says it is for a pattern to match a path
SpecMatches(pattern, rel, name) ==
    IF pattern[Len(pattern)] = SLASH
    THEN LET prefix == SubSeq(pattern, 1, Len(pattern) - 1)
         IN  StartsWith(rel, prefix) \/ FnMatch(rel, prefix)
    ELSE FnMatch(rel, pattern) \/ FnMatch(name, pattern)

\* C17: for a path below the root, other than the root, should_ignore is true
\* exactly when some pattern of the set matches it: a pattern ending in a
\* separator by prefix of the relative path or glob of it against the pattern
\* less the separator, any other by glob of the relative path or of the file
\* name. So build/ ignores R/build/out.txt and *.log ignores R/a/b/x.log.
C17_IgnoredIffSomePatternMatches ==
    (output.op = "should_ignore" /\ UnderRoot(input.root_dir, input.path)) =>
        LET rel == RelativeTo(input.root_dir, input.path)
            set == InputMatcher.patterns
        IN  /\ output.result =
                   (\E k \in 1..Len(set) : SpecMatches(set[k], rel, Name(input.path)))
            /\ rel \in {<<"b", "u", "i", "l", "d", "/", "o", "u", "t", ".", "t", "x", "t">>,
                        <<"a", "/", "b", "/", "x", ".", "l", "o", "g">>}
               => output.result = TRUE

\* R/build/out.txt was asked about, no ignore file line at all, and is ignored
C17_Witness ==
    /\ output.op = "should_ignore"
    /\ input.root_dir = <<"R">>
    /\ input.lines = <<>>
    /\ input.path = <<"R", "/", "b", "u", "i", "l", "d", "/", "o", "u", "t", ".", "t", "x", "t">>
    /\ output.result = TRUE

\* C18: should_ignore is false for the root itself and for every path that
\* is not below the root, whatever the patterns are, also when the name of
\* the path matches a built-in pattern.
C18_RootAndOutsideNeverIgnored ==
    (output.op = "should_ignore" /\ ~UnderRoot(input.root_dir, input.path)) =>
        output.result = FALSE

\* x.log, not below R, matches the built-in *.log and is not ignored
C18_Witness ==
    /\ output.op = "should_ignore"
    /\ input.root_dir = <<"R">>
    /\ input.path = <<"x", ".", "l", "o", "g">>
    /\ output.result = FALSE

\* the lines of an ignore file that do not begin with "!"
WithoutBangLines(lines) ==
    LET keep(line) == line = <<>> \/ line[1] # "!" IN SelectSeq(lines, keep)

\* C19: a line beginning with "!" adds no pattern: should_ignore answers as
\* it does for the same ignore file with its "!" lines deleted, so a path
\* an ignore pattern matches stays ignored even when a "!" line names it.
C19_NegationAddsNothing ==
    output.op = "should_ignore" =>
        output.result =
            should_ignore(GitignoreMatcher(input.root_dir,
                              IgnoreFilesOf(input.root_dir, input.file,
                                            WithoutBangLines(input.lines))),
                          input.path)

\* a/n.txt is named by the line !n.txt after the line n.txt, and is ignored
C19_Witness ==
    /\ output.op = "should_ignore"
    /\ input.lines = << <<"n", ".", "t", "x", "t">>, <<"!", "n", ".", "t", "x", "t">> >>
    /\ RelativeTo(input.root_dir, input.path) = <<"a", "/", "n", ".", "t", "x", "t">>
    /\ UnderRoot(input.root_dir, input.path)
    /\ output.result = TRUE

\* ---------------------------------------------------- claims on git modes
\* the git command could not be run, or exited with a non-zero status
GitFailed == ~git.found \/ git.returncode # 0

\* C20: in a git-derived mode (staged, unstaged, all-changed) a failure to
\* run git (no binary, non-zero exit) gives an empty file set: no error
\* propagates, no file is read or written, and the run ends normally.
C20_GitFailureGivesNoFiles ==
    (GitMode(args) /\ GitFailed /\ pc # "start") =>
        /\ pc = "done"
        /\ exit_code = 0
        /\ processed_files = <<>>
        /\ calls = <<>>
        /\ log = <<>>
        /\ disk = InitDisk

\* git exited with a non-zero status after printing a name, and the run is over
C20_Witness ==
    /\ GitMode(args)
    /\ git.found /\ git.returncode # 0 /\ git.stdout # <<>>
    /\ pc = "done"
    /\ exit_code = 0
    /\ calls = <<>>

\* ------------------------------------------------ claims on the run report
\* the loop of main ran to its end and print_stats was called
ReportReached ==
    /\ pc = "done"
    /\ processed_files # <<>>
    /\ idx > Len(processed_files)
    /\ ~QuitGiven

\* C21: the counters are printed exactly once at the end of a run unless quiet
\* is set; in a non-quiet run that processed at least one file the report
\* carries the percent line, files_changed relative to files_processed, and
\* files_processed is the number of files handed to process_file.
C21_ReportShowsPercent ==
    ReportReached =>
        /\ reports = (IF args.quiet THEN 0 ELSE 1)
        /\ stats.files_processed = Len(calls)
        /\ (~args.quiet /\ calls # <<>>) =>
               /\ print_stats(args, stats).percent_shown
               /\ print_stats(args, stats).changed_percent
                      = (stats.files_changed * 1000) \div Len(calls)

\* what the invocations 1..k that returned True found to fix: JSON files
\* reformatted, lines with tabs expanded, lines fixed
RECURSIVE FixedUpTo(_)
FixedUpTo(k) ==
    IF k = 0 THEN [json_formatted |-> 0, tabs_replaced |-> 0, lines_fixed |-> 0]
    ELSE IF calls[k].result # "True" THEN FixedUpTo(k - 1)
    ELSE LET t == Transform(args, calls[k].path, calls[k].raw)
             before == FixedUpTo(k - 1)
         IN  [json_formatted |-> before.json_formatted + (IF t.json_changed THEN 1 ELSE 0),
              tabs_replaced |-> before.tabs_replaced + t.indent_changes,
              lines_fixed |-> before.lines_fixed + t.indent_changes + t.trailing_changes]

\* C22: lines_fixed, tabs_replaced and json_formatted change only in an
\* invocation that reports the file as changed: an invocation that ends as
\* no-change (declined, or bytes identical to the original) leaves them as they
\* were, so they always hold what the invocations that returned True fixed.
C22_CountersOnlyWhenChanged ==
    /\ stats.json_formatted = FixedUpTo(Len(calls)).json_formatted
    /\ stats.tabs_replaced = FixedUpTo(Len(calls)).tabs_replaced
    /\ stats.lines_fixed = FixedUpTo(Len(calls)).lines_fixed

\* some invocation was left by an exception raised inside process_file
RaisedInside == \E k \in Invocations : calls[k].is_path /\ calls[k].result = "raise"

\* C23: whatever progress, quiet, interactive and the availability of tqdm,
\* the loop hands each file left by the gitignore filtering to process_file
\* exactly once, as a path, in discovery order, and then reaches the
\* statistics report (a quit at the prompt and an exception raised while a
\* file is processed set aside).
C23_EveryFileHandedOnce ==
    /\ Len(calls) <= Len(processed_files)
    /\ \A k \in Invocations : calls[k].is_path /\ calls[k].path = processed_files[k]
    /\ (RunOver /\ processed_files # <<>> /\ ~QuitGiven /\ ~RaisedInside) =>
           /\ Len(calls) = Len(processed_files)
           /\ pc = "done"
           /\ reports = (IF args.quiet THEN 0 ELSE 1)

\* lines 652-680 of main: the files discovery gave this run, before filtering
files_to_process ==
    IF GitMode(args) THEN get_git_files(Mode(args), git)
    ELSE Discover(InitDisk, IF args.paths = <<>> THEN <<Cwd>> ELSE args.paths)

\* the positions of the discovered files the matcher of the run excludes
Excluded ==
    {k \in 1..Len(files_to_process) :
        should_ignore(MatcherFor(files_to_process), files_to_process[k])}

\* C24: in a run with gitignore filtering enabled every discovered file for
\* which should_ignore is true is recorded as skipped: at the end of the run
\* files_skipped is the number of discovered files the matcher excluded.
C24_SkippedCountsExcluded ==
    (/\ pc = "done"
     /\ exit_code = 0
     /\ ~QuitGiven
     /\ ~args.no_gitignore
     /\ files_to_process # <<>>)
        => stats.files_skipped = Cardinality(Excluded)

\* ------------------------------------------------ claims on process_file
\* no counter moved since TabFix was constructed
CountersUnchanged(st) == st = InitStats

\* C25: process_file on a path that is not a regular file, on a file of more
\* than 10*1024*1024 bytes, or on a file whose read fails returns False,
\* writes no file and changes no counter; a file of exactly 10*1024*1024
\* bytes passes the size gate and is read.
C25_GatesReturnNoChange ==
    output.op = "process_file" =>
        /\ (\/ input.entry.kind # "file"
            \/ input.entry.size > SizeLimit
            \/ ~input.entry.readable)
               => /\ output.result.call.result = "False"
                  /\ ~output.result.call.read
                  /\ output.result.disk = EntryDisk
                  /\ output.result.events = <<>>
                  /\ CountersUnchanged(output.result.stats)
        /\ (/\ input.entry.kind = "file"
            /\ input.entry.size = SizeLimit
            /\ input.entry.readable)
               => /\ output.result.call.read
                  /\ output.result.call.raw = input.entry.data

\* a file at the limit was read and rewritten with every transform on
C25_Witness ==
    /\ output.op = "process_file"
    /\ input.entry.size = SizeLimit
    /\ input.a.fix_trailing
    /\ output.result.call.result = "True"
    /\ output.result.events # <<>>

\* invocation k opened its target for writing
Wrote(k) == \E e \in OpenedBy(k) : log[e].op = "write"

\* C26: with neither remove_bom nor keep_bom set, a file that begins with a
\* BOM keeps it only if no transform records a change: once a transform
\* changes the file and it is written, the bytes written carry no BOM, though
\* no "Removed BOM" change was recorded and bom_removed is not incremented.
C26_BomDroppedUnrecorded ==
    LET k == Len(calls)
    IN  (k > 0 /\ ~args.remove_bom /\ ~args.keep_bom /\ calls[k].had_bom)
            => /\ \A i \in 1..Len(calls[k].changes) :
                      calls[k].changes[i].msg # "Removed BOM"
               /\ stats.bom_removed = 0
               /\ calls[k].changes = <<>> =>
                      /\ calls[k].result = "False"
                      /\ disk[calls[k].path].data = calls[k].raw
               /\ calls[k].encoded => calls[k].new_raw # calls[k].raw
               /\ Wrote(k) =>
                      /\ calls[k].changes # <<>>
                      /\ disk[calls[k].path].data = EncodeUtf8(calls[k].content)
               /\ StartsWith(disk[calls[k].path].data, BOM) <=> ~Wrote(k)

\* a file with a BOM was rewritten without it under the default BOM options
C26_Witness ==
    /\ ~args.remove_bom /\ ~args.keep_bom
    /\ Len(calls) = 1
    /\ calls[1].had_bom
    /\ calls[1].result = "True"
    /\ Wrote(1)
    /\ ~StartsWith(disk[calls[1].path].data, BOM)
    /\ stats.bom_removed = 0

\* ------------------------------------------------ claims on the prompt
\* the answers interactive_confirm returns or exits on
Recognized == {"y", "yes", "n", "no", "a", "all", "q", "quit"}

\* every invocation that found changes in an interactive run was prompted,
\* whatever was answered for the files before it
StillPrompted ==
    args.interactive =>
        \A k \in Invocations : calls[k].changes # <<>> => calls[k].prompts >= 1

\* what one answer at the prompt does: all and yes go on to lines 414-440 with
\* the same outcome, an answer that is not recognized leaves files, counters
\* and position alone and prompts again, and only a recognized answer leaves
\* the prompt
AnswerStep ==
    pc = "prompt" =>
        LET k == Len(calls)
            given == calls'[k].answer
            c == Commit(calls[k], k, args, disk, stats)
        IN  /\ Len(calls') = k
            /\ given \in {"y", "yes", "a", "all"} =>
                   /\ calls'[k] = [c.call EXCEPT !.answer = given]
                   /\ disk' = c.disk
                   /\ stats' = c.stats
                   /\ log' = log \o c.events
                   /\ pc' = (IF c.status = "raise" THEN "crashed" ELSE "loop")
                   /\ UNCHANGED <<matcher, processed_files, idx>>
            /\ given \notin Recognized =>
                   /\ pc' = "prompt"
                   /\ calls'[k] = [calls[k] EXCEPT !.answer = given, !.prompts = @ + 1]
                   /\ UNCHANGED <<disk, stats, log, idx, exit_code, matcher,
                                  processed_files>>
            /\ pc' # "prompt" => given \in Recognized

\* C27: answering all at the prompt has exactly the effect of answering yes
\* and records no state, so every later file with changes is still prompted;
\* an answer that is not y/yes/n/no/a/all/q/quit prompts again for the same
\* file without changing a file or a counter, and the prompt returns only
\* after a recognized answer.
C27_AllIsYesAndUnknownReprompts == [](StillPrompted) /\ [][AnswerStep]_vars

\* all was answered for the first file, which was written, and the second
\* file was prompted for, and prompted for again after an unknown answer
C27_Witness ==
    /\ Len(calls) = 2
    /\ calls[1].answer = "a"
    /\ calls[1].result = "True"
    /\ Wrote(1)
    /\ pc = "prompt"
    /\ calls[2].answer = "x"
    /\ calls[2].prompts = 2

\* ------------------------------------------------ claims on files_changed
\* files_changed counts the invocations that returned True, and each of them
\* had changes to report and bytes that differ from those read
ChangedAreCounted ==
    /\ stats.files_changed = Cardinality(Changed)
    /\ \A k \in Changed : calls[k].changes # <<>> /\ Differs(k)

\* the invocations that have returned or raised
Ended == {k \in Invocations : calls[k].result # "pending"}

\* a step that ends an invocation adds one to files_changed if it returned
\* True and nothing otherwise, and no other step moves files_changed
CountStep ==
    LET ended == {k \in 1..Len(calls') : calls'[k].result # "pending"} \ Ended
    IN  /\ Cardinality(ended) <= 1
        /\ stats'.files_changed =
               stats.files_changed
                   + Cardinality({k \in ended : calls'[k].result = "True"})

\* C28: process_file returns True exactly when the invocation adds one to
\* files_changed and an invocation returning False leaves it alone; so
\* files_changed is the number of invocations that returned True, each of
\* which had a non-empty change list and bytes different from the original.
C28_ChangedCountsTrueReturns == [](ChangedAreCounted) /\ [][CountStep]_vars

\* of two files the first was reported changed and the second was not
C28_Witness ==
    /\ Len(calls) = 2
    /\ calls[1].result = "True"
    /\ calls[2].result = "False"
    /\ calls[2].encoded
    /\ stats.files_changed = 1
    /\ pc = "done"

\* ------------------------------------------- claims on directory patterns
BuildDir == <<"b", "u", "i", "l", "d", "/">>

BuilderPy == <<"b", "u", "i", "l", "d", "e", "r", ".", "p", "y">>

NestedBuild == <<"a", "/", "b", "u", "i", "l", "d", "/", "o", "u", "t", ".", "t", "x", "t">>

\* a pattern that names a directory and holds no wildcard
PlainDirectory(pattern) ==
    /\ pattern[Len(pattern)] = SLASH
    /\ \A i \in 1..Len(pattern) : pattern[i] \notin {"*", "?", "["}

\* C29: a directory pattern is matched by raw string prefix of the
\* root-relative path, not by path component: under build/ the root-level path
\* builder.py is ignored, while a/build/out.txt is not matched by that pattern
\* (and is ignored only if some other pattern matches it).
C29_DirectoryPatternIsStringPrefix ==
    (output.op = "should_ignore" /\ UnderRoot(input.root_dir, input.path)) =>
        LET rel == RelativeTo(input.root_dir, input.path)
            name == Name(input.path)
            set == InputMatcher.patterns
        IN  /\ \E k \in 1..Len(set) : set[k] = BuildDir
            /\ \A k \in 1..Len(set) :
                   PlainDirectory(set[k]) =>
                       LET prefix == SubSeq(set[k], 1, Len(set[k]) - 1)
                       IN  /\ StartsWith(rel, prefix) => output.result = TRUE
                           /\ PatternMatches(set[k], rel, name) = StartsWith(rel, prefix)
            /\ rel = BuilderPy => output.result = TRUE
            /\ rel = NestedBuild =>
                   /\ ~PatternMatches(BuildDir, rel, name)
                   /\ output.result =
                          (\E k \in 1..Len(set) :
                              set[k] # BuildDir /\ PatternMatches(set[k], rel, name))
                   /\ input.lines = <<>> => output.result = FALSE

\* R/builder.py was asked about with no ignore file line, and is ignored
C29_Witness ==
    /\ output.op = "should_ignore"
    /\ input.root_dir = <<"R">>
    /\ input.lines = <<>>
    /\ input.path = Child(<<"R">>, BuilderPy)
    /\ output.result = TRUE

\* ------------------------------------------------ claims on CRLF line ends
\* text holds a carriage return immediately before a newline
HasCrlf(text) == \E j \in 1..(Len(text) - 1) : text[j] = CR /\ text[j + 1] = LF

\* C30: lines are split on the newline only and the strip of trailing
\* whitespace removes a carriage return, so fix_trailing_spaces rewrites every
\* CRLF-terminated line LF-terminated and reports it as a "Removed trailing
\* spaces" change for that line, even if no space or tab ended it; its output
\* holds no carriage return immediately before a newline. So does what
\* process_file makes of a file when the transform is enabled, with that
\* change among those of a CRLF file the JSON step left as it was.
C30_CrlfBecomesLf ==
    /\ output.op = "fix_trailing_spaces" =>
           LET old == Split(input.content, LF)
               new == Split(output.result.content, LF)
           IN  /\ Len(new) = Len(old)
               /\ \A i \in 1..(Len(old) - 1) :
                      (old[i] # <<>> /\ old[i][Len(old[i])] = CR)
                          => /\ new[i] = Stripped(old[i])
                             /\ Len(new[i]) < Len(old[i])
                             /\ \E c \in 1..Len(output.result.changes) :
                                    output.result.changes[c]
                                        = Change(i, "Removed trailing spaces")
               /\ ~HasCrlf(output.result.content)
    /\ (output.op = "pipeline" /\ input.a.fix_trailing
            /\ output.result.status # "raise")
           => /\ ~HasCrlf(output.result.call.content)
              /\ (/\ HasCrlf(DecodeUtf8Sig(input.raw).text)
                  /\ \A c \in 1..Len(output.result.call.changes) :
                         output.result.call.changes[c].msg # "Formatted JSON") =>
                     \E c \in 1..Len(output.result.call.changes) :
                         output.result.call.changes[c].msg = "Removed trailing spaces"

\* "x\r\nx", no space or tab at a line end, came out as "x\nx" with one
\* change, for line 1
C30_Witness ==
    /\ output.op = "fix_trailing_spaces"
    /\ input.content = <<LETTER, CR, LF, LETTER>>
    /\ output.result.content = <<LETTER, LF, LETTER>>
    /\ output.result.changes = <<Change(1, "Removed trailing spaces")>>

====
